---- MODULE Spec2Model ----
(***************************************************************************)
(* Model of partfinder/scheme.py (Scheme, SchemeSet) and of the search     *)
(* strategies of partfinder/analysis_method.py.                            *)
(***************************************************************************)
EXTENDS Integers, Sequences, FiniteSets, TLC

VARIABLES
    partnum,    \* number of partitions of the configuration (cfg.user_subsets)
    schemes,    \* SchemeSet.schemes : name -> Scheme object
    subsets,    \* SchemeSet.subsets : frozenset of partition ids -> Subset object
    created,    \* per id set, how many Subset objects were constructed for it
    call,       \* the last call made on the registry and how it ended
    workers,    \* the get_subset calls of concurrent workers, each where it stands
    search,     \* the strategy that runs ("none": the registry on its own)
    pc,         \* where do_analysis stands
    error,      \* the exception that ended the run, if any
    results,    \* self.results: best_score and best_scheme
    start_scheme,   \* the current scheme of the search (a registry key)
    step,
    cur_s,
    old_best_score,
    lumped_subsets, \* the candidate merges of the current step
    pos,            \* how many of lumped_subsets the for loop has consumed
    lumped_scheme,  \* the scheme built last by the for loop
    cluster_percent,
    ranking,        \* the order the similarity heuristic ranks merges in
    scheme_name,    \* AllAnalysis: the name of the next scheme
    analysed,   \* the schemes handed to analyse_scheme, in order
    min_seen,   \* the lowest score the oracle has returned in this run
    iterations, \* how often the body of the step loop was entered
    written,    \* calls of reporter.write_best_scheme
    summaries,  \* the schemes passed to reporter.write_scheme_summary
    user_schemes,   \* cfg.user_schemes: the schemes of the User strategy
    km          \* the data blocks and the locals of the k-means strategies

regvars == <<schemes, subsets, created>>
runvars == <<search, pc, error, results, start_scheme, step, cur_s,
             old_best_score, lumped_subsets, pos, lumped_scheme,
             cluster_percent, ranking, scheme_name, analysed, min_seen,
             iterations, written, summaries, user_schemes, km>>
vars == <<partnum, regvars, call, workers, runvars>>

(***************************************************************************)
(* Bounds of the registry model.                                           *)
(***************************************************************************)
NumParts == 2       \* partitions of the registry model
MaxNames == 3       \* partition names in the subset definitions of one Scheme
MaxCalls == 2       \* calls made on one registry
NumWorkers == 2     \* workers that call get_subset concurrently

(***************************************************************************)
(* Bounds of the strategy runs.                                            *)
(***************************************************************************)
MaxPartnum == 5     \* partitions a run starts from
MaxAllParts == 4    \* partitions an exhaustive run starts from
MaxScore == 4       \* the oracle's scores are 1 .. MaxScore
MaxUserSchemes == 3 \* schemes of the User strategy's configuration
MaxColumns == 6     \* columns of the alignment a k-means run starts from
MaxBlocks == 2      \* data blocks of the alignment a k-means run starts from

(***************************************************************************)
(* Names.  A scheme name is a triple: "start_scheme" is <<"start_scheme",  *)
(* 0, 0>>, the number n is <<"int", n, 0>>, "step_%d" % s is <<"step", s,  *)
(* 0>> and "step_%d_%d" % (s, j) is <<"step", s, j>>.                      *)
(***************************************************************************)
NameStart == <<"start_scheme", 0, 0>>
NameInt(n) == <<"int", n, 0>>
NameStep(s) == <<"step", s, 0>>
NameStepSub(s, j) == <<"step", s, j>>
NoScheme == <<"none", 0, 0>>

Range(s) == {s[i] : i \in 1 .. Len(s)}

SeqsUpTo(S, n) == UNION {[1 .. m -> S] : m \in 0 .. n}

(***************************************************************************)
(* Partitions and Subset objects.                                          *)
(***************************************************************************)
Parts == 1 .. partnum

\* the columns partition p covers: disjoint across partitions.  The finest
\* partitions are single columns, which is what the k-means strategies split
\* subsets into.
PartColumns(p) == {p}

\* Subset.columnset: the union of the columns of the subset's partitions
columnset(ids) == UNION {PartColumns(p) : p \in ids}

\* partitions.columnset: the full column universe
partitions_columnset == columnset(Parts)

\* Subset(partitions, subset_id): the n-th object constructed for this id set
Subset(subset_id, n) == [id |-> subset_id, serial |-> n]

NoSubset == [id |-> {}, serial |-> 0]

(***************************************************************************)
(* SchemeSet.  A registry value S is a record of the three mappings.       *)
(***************************************************************************)
SchemeSetInit(n) ==
    [schemes |-> <<>>, subsets |-> <<>>,
     created |-> [k \in SUBSET (1 .. n) |-> 0]]

\* get_subset without the membership test: a new Subset on every request
get_subset_always_new(S, subset_id) ==
    LET sub == Subset(subset_id, S.created[subset_id] + 1)
    IN  [S |-> [S EXCEPT !.subsets =
                    [k \in DOMAIN @ \cup {subset_id} |->
                        IF k = subset_id THEN sub ELSE @[k]],
                         !.created[subset_id] = @ + 1],
         sub |-> sub]

\* SchemeSet.get_subset: return an existing subset or make a new one
get_subset(S, subset_id) ==
    IF subset_id \in DOMAIN S.subsets
    THEN [S |-> S, sub |-> S.subsets[subset_id]]
    ELSE LET sub == Subset(subset_id, S.created[subset_id] + 1)
         IN  [S |-> [S EXCEPT !.subsets = (subset_id :> sub) @@ @,
                              !.created[subset_id] = @ + 1],
              sub |-> sub]

\* add_scheme that stores the scheme before it rejects the name
add_scheme_overwrite(S, scheme) ==
    [S |-> [S EXCEPT !.schemes =
               [n \in DOMAIN @ \cup {scheme.name} |->
                   IF n = scheme.name THEN scheme ELSE @[n]]],
     raised |-> IF scheme.name \in DOMAIN S.schemes
                THEN "SchemeError" ELSE "none"]

\* SchemeSet.add_scheme
add_scheme(S, scheme) ==
    IF scheme.name \in DOMAIN S.schemes
    THEN [S |-> S, raised |-> "SchemeError"]
    ELSE [S |-> [S EXCEPT !.schemes = (scheme.name :> scheme) @@ @],
          raised |-> "none"]

(***************************************************************************)
(* Scheme.                                                                 *)
(***************************************************************************)
\* Scheme.make_subset_id: the error branch evaluates the arguments of
\* log.error, among them `name', which is neither a local nor a global of
\* the method: the lookup raises NameError before `raise SchemeError'.
make_subset_id(subset_def) ==
    IF \E i \in 1 .. Len(subset_def) : subset_def[i] \notin Parts
    THEN [raised |-> "NameError", id |-> {}]
    ELSE [raised |-> "none", id |-> Range(subset_def)]

\* the loop of Scheme.__init__ over the subset definitions, from the i-th on
RECURSIVE scheme_subsets(_, _, _, _)
scheme_subsets(S, defs, i, acc) ==
    IF i > Len(defs)
    THEN [S |-> S, raised |-> "none", subsets |-> acc]
    ELSE LET mk == make_subset_id(defs[i])
         IN  IF mk.raised # "none"
             THEN [S |-> S, raised |-> mk.raised, subsets |-> acc]
             ELSE LET got == get_subset(S, mk.id)
                  IN  scheme_subsets(got.S, defs, i + 1, Append(acc, got.sub))

\* Scheme.__init__: the registry after the call, what was raised and the
\* scheme object
SchemeInit(S, name, defs) ==
    LET built == scheme_subsets(S, defs, 1, <<>>)
        all_columns == UNION {columnset(built.subsets[i].id) :
                                 i \in 1 .. Len(built.subsets)}
        self == [name |-> name, subsets |-> built.subsets]
    IN  IF built.raised # "none"
        THEN [S |-> built.S, raised |-> built.raised, scheme |-> self]
        ELSE IF all_columns # partitions_columnset
        THEN [S |-> built.S, raised |-> "SchemeError", scheme |-> self]
        ELSE LET added == add_scheme(built.S, self)
             IN  [S |-> added.S, raised |-> added.raised, scheme |-> self]

(***************************************************************************)
(* The registry on its own: clients construct schemes and request subsets. *)
(***************************************************************************)
Registry == [schemes |-> schemes, subsets |-> subsets, created |-> created]

\* names a subset definition may use: the partitions and one unknown name
PartNames == 1 .. (NumParts + 1)

\* the list `names' cut into subset definitions after the positions in `cuts'
RECURSIVE Chunks(_, _, _)
Chunks(names, cuts, from) ==
    IF from > Len(names) THEN <<>>
    ELSE LET to == CHOOSE t \in from .. Len(names) :
                       /\ t = Len(names) \/ t \in cuts
                       /\ \A u \in from .. t - 1 : u \notin cuts
         IN  <<SubSeq(names, from, to)>> \o Chunks(names, cuts, to + 1)

\* the lists of subset definitions a client may hand to Scheme: every way
\* to write up to MaxNames partition names and to group them
GroupLists ==
    UNION {{Chunks(names, cuts, 1) : cuts \in SUBSET (1 .. Len(names) - 1)} :
              names \in SeqsUpTo(PartNames, MaxNames) \ {<<>>}}
Names == {NameStart, NameStep(1)}

\* what the arguments of a Scheme construction are like, before the call
HasUnknown(defs) ==
    \E i \in 1 .. Len(defs) : \E j \in 1 .. Len(defs[i]) : defs[i][j] \notin Parts
HasOverlap(defs) ==
    \E i, j \in 1 .. Len(defs) : i < j /\ Range(defs[i]) \cap Range(defs[j]) # {}
HasGap(defs) ==
    \E p \in Parts : \A i \in 1 .. Len(defs) : p \notin Range(defs[i])

NoCall ==
    [op |-> "none", name |-> NameStart, unknown |-> FALSE, overlap |-> FALSE,
     gap |-> FALSE, dupname |-> FALSE, raised |-> "none", added |-> FALSE,
     kept |-> TRUE, cache_kept |-> TRUE, cache_grown |-> FALSE,
     ret |-> NoSubset, n |-> 0]

NoError == [type |-> "none", diag |-> "none"]
NoScore == MaxScore + 1
NoResults == [best_score |-> NoScore, best_scheme |-> NoScheme]

\* no worker has called get_subset
Workers == 1 .. NumWorkers
NoWorkers == [w \in Workers |-> [pc |-> "idle", subset_id |-> {}, ret |-> NoSubset]]

\* the k-means locals before a k-means strategy has set them; new_score is
\* Unbound until line 375 (481, 556) has assigned it
Unbound == 0
NoKm ==
    [blocks |-> <<>>, all_subsets |-> <<>>, subset_index |-> 0,
     best_scheme |-> NoScheme, best_score |-> NoScore, cached |-> NoScore,
     new_score |-> Unbound, split_calls |-> {}, tests |-> 0, last |-> "none"]

\* the state of a run before do_analysis is entered
RunInit(s) ==
    /\ search = s
    /\ pc = "start"
    /\ error = NoError
    /\ results = NoResults
    /\ start_scheme = NoScheme
    /\ step = 0
    /\ cur_s = 0
    /\ old_best_score = NoScore
    /\ lumped_subsets = <<>>
    /\ pos = 0
    /\ lumped_scheme = NoScheme
    /\ scheme_name = 0
    /\ analysed = <<>>
    /\ min_seen = NoScore
    /\ iterations = 0
    /\ written = 0
    /\ summaries = <<>>

Init ==
    /\ partnum = NumParts
    /\ schemes = SchemeSetInit(NumParts).schemes
    /\ subsets = SchemeSetInit(NumParts).subsets
    /\ created = SchemeSetInit(NumParts).created
    /\ call = NoCall
    /\ workers = NoWorkers
    /\ RunInit("none")
    /\ cluster_percent = 0
    /\ ranking = "none"
    /\ user_schemes = <<>>
    /\ km = NoKm

\* a client constructs Scheme(schemeset, name, defs)
NewScheme(name, defs) ==
    /\ call.n < MaxCalls
    /\ LET r == SchemeInit(Registry, name, defs)
       IN  /\ schemes' = r.S.schemes
           /\ subsets' = r.S.subsets
           /\ created' = r.S.created
           /\ call' = [op |-> "Scheme", name |-> name,
                       unknown |-> HasUnknown(defs),
                       overlap |-> HasOverlap(defs),
                       gap |-> HasGap(defs),
                       dupname |-> name \in DOMAIN schemes,
                       raised |-> r.raised,
                       added |-> r.S.schemes # schemes,
                       kept |-> \A n \in DOMAIN schemes :
                                   /\ n \in DOMAIN r.S.schemes
                                   /\ r.S.schemes[n] = schemes[n],
                       cache_kept |-> \A k \in DOMAIN subsets :
                                         /\ k \in DOMAIN r.S.subsets
                                         /\ r.S.subsets[k] = subsets[k],
                       cache_grown |-> DOMAIN r.S.subsets # DOMAIN subsets,
                       ret |-> NoSubset, n |-> call.n + 1]
    /\ UNCHANGED <<partnum, workers, runvars>>

\* a client calls schemeset.get_subset(subset_id)
GetSubset(subset_id) ==
    /\ call.n < MaxCalls
    /\ LET r == get_subset(Registry, subset_id)
       IN  /\ subsets' = r.S.subsets
           /\ created' = r.S.created
           /\ call' = [NoCall EXCEPT !.op = "get_subset", !.ret = r.sub,
                                     !.n = call.n + 1]
    /\ UNCHANGED <<partnum, schemes, workers, runvars>>

Next ==
    \/ \E name \in Names, defs \in GroupLists : NewScheme(name, defs)
    \/ \E subset_id \in SUBSET Parts : GetSubset(subset_id)

Spec == Init /\ [][Next]_vars

(***************************************************************************)
(* SchemeSet.get_subset called by concurrent workers: the membership test  *)
(* of line 56 and the construction and insertion of lines 60-61 are steps  *)
(* of their own, and nothing in the method keeps another worker out.       *)
(***************************************************************************)
\* line 54: a worker enters get_subset(subset_id)
WorkerCall(w) ==
    /\ workers[w].pc = "idle"
    /\ \E subset_id \in SUBSET Parts :
          workers' = [workers EXCEPT ![w].pc = "test",
                                     ![w].subset_id = subset_id]
    /\ UNCHANGED <<partnum, regvars, call, runvars>>

\* lines 56-57: the membership test, and the return of the subset found
WorkerTest(w) ==
    /\ workers[w].pc = "test"
    /\ workers' = IF workers[w].subset_id \in DOMAIN subsets
                  THEN [workers EXCEPT ![w].pc = "done",
                                       ![w].ret = subsets[workers[w].subset_id]]
                  ELSE [workers EXCEPT ![w].pc = "create"]
    /\ UNCHANGED <<partnum, regvars, call, runvars>>

\* lines 60-62: a new Subset is constructed, stored under the id and returned
WorkerInsert(w) ==
    /\ workers[w].pc = "create"
    /\ LET subset_id == workers[w].subset_id
           sub == Subset(subset_id, created[subset_id] + 1)
       IN  /\ subsets' = [k \in DOMAIN subsets \cup {subset_id} |->
                             IF k = subset_id THEN sub ELSE subsets[k]]
           /\ created' = [created EXCEPT ![subset_id] = @ + 1]
           /\ workers' = [workers EXCEPT ![w].pc = "done", ![w].ret = sub]
    /\ UNCHANGED <<partnum, schemes, call, runvars>>

WorkersNext ==
    \E w \in Workers :
        \/ WorkerCall(w)
        \/ WorkerTest(w)
        \/ WorkerInsert(w)

SpecWorkers == Init /\ [][WorkersNext]_vars

(***************************************************************************)
(* The collaborators of the strategies: scheme.create_scheme, the          *)
(* neighbour module, Analysis.analyse_scheme and the oracle.               *)
(***************************************************************************)
Scores == 1 .. MaxScore

\* what one oracle call can bring: a score, or PhylogenyProgramError with a
\* diagnostic text that is one of the recoverable ones or another
OracleResults ==
    {[err |-> "none", score |-> sc] : sc \in Scores}
        \cup {[err |-> d, score |-> 0] : d \in {"recoverable", "other"}}

PhylogenyProgramError(diag) == [type |-> "PhylogenyProgramError", diag |-> diag]
Raised(type) == [type |-> type, diag |-> "none"]

Min(a, b) == IF a < b THEN a ELSE b
Max(a, b) == IF a > b THEN a ELSE b

\* the elements of a set of partition ids as a list, ascending
RECURSIVE SortedSeq(_)
SortedSeq(ids) ==
    IF ids = {} THEN <<>>
    ELSE LET m == CHOOSE x \in ids : \A y \in ids : x <= y
         IN  <<m>> \o SortedSeq(ids \ {m})

\* range(partnum): every partition a subset of its own
start_description == [i \in 1 .. partnum |-> <<i>>]

\* scheme.create_scheme(cfg, name, description)
create_scheme(S, name, description) == SchemeInit(S, name, description)

\* a tracker that keeps the latest result, whatever its score
consider_latest(res, key, score) == [best_score |-> score, best_scheme |-> key]

\* a tracker that lets a later result with an equal score replace the best
consider_ties(res, key, score) ==
    IF res.best_scheme = NoScheme \/ score <= res.best_score
    THEN [best_score |-> score, best_scheme |-> key]
    ELSE res

\* the best-result tracker behind analyse_scheme: a result replaces the best
\* one iff it is the first or its score is strictly lower
consider(res, key, score) ==
    IF res.best_scheme = NoScheme \/ score < res.best_score
    THEN [best_score |-> score, best_scheme |-> key]
    ELSE res

\* itertools.combinations(s, 2): the pairs <<s[i], s[j]>>, i < j, in
\* lexicographic order of (i, j)
RECURSIVE combinations_from(_, _, _)
combinations_from(s, i, j) ==
    IF i >= Len(s) THEN <<>>
    ELSE IF j > Len(s) THEN combinations_from(s, i + 1, i + 2)
    ELSE <<(<<s[i], s[j]>>)>> \o combinations_from(s, i, j + 1)

\* every ordered pair <<s[i], s[j]>>, i # j
permutations2(s) ==
    combinations_from(s, 1, 2)
        \o [n \in 1 .. Len(combinations_from(s, 1, 2)) |->
              <<combinations_from(s, 1, 2)[n][2], combinations_from(s, 1, 2)[n][1]>>]

combinations2(s) == combinations_from(s, 1, 2)

\* the subsets of `scheme' without those of the grouping
RECURSIVE without(_, _)
without(subs, grouping) ==
    IF subs = <<>> THEN <<>>
    ELSE IF Head(subs) \in Range(grouping) THEN without(Tail(subs), grouping)
    ELSE <<Head(subs)>> \o without(Tail(subs), grouping)

\* the description of the scheme neighbour.make_clustered_scheme builds: the
\* subsets of the grouping merged into one, the others as they are
clustered_description(scheme, subset_grouping) ==
    LET rest == without(scheme.subsets, subset_grouping)
        merged == UNION {subset_grouping[i].id : i \in 1 .. Len(subset_grouping)}
    IN  [i \in 1 .. Len(rest) |-> SortedSeq(rest[i].id)]
            \o <<SortedSeq(merged)>>

\* neighbour.make_clustered_scheme(start_scheme, scheme_name, grouping, cfg)
make_clustered_scheme(S, scheme, name, subset_grouping) ==
    SchemeInit(S, name, clustered_description(scheme, subset_grouping))

\* len(set(scheme.subsets))
DistinctSubsets(scheme) == Cardinality(Range(scheme.subsets))

(***************************************************************************)
(* Python floats (IEEE 754 binary64) as far as line 229 and line 265 use   *)
(* them.  A float is [m |-> bits, e |-> exponent]: the bits of its         *)
(* significand, least significant first, at most 53 of them, and its       *)
(* value is significand * 2^e.  Zero has no bits.                          *)
(***************************************************************************)
Precision == 53

\* the n low bits of the natural v, least significant first
BitsOfNat(v, n) == [i \in 1 .. n |-> (v \div 2 ^ (i - 1)) % 2]

RECURSIVE NatOfBits(_)
NatOfBits(bits) ==
    IF bits = <<>> THEN 0 ELSE Head(bits) + 2 * NatOfBits(Tail(bits))

\* bits * k + carry, for a small natural k: twelve bits at a time
RECURSIVE MulAdd(_, _, _)
MulAdd(bits, k, carry) ==
    IF bits = <<>>
    THEN IF carry = 0 THEN <<>>
         ELSE <<carry % 2>> \o MulAdd(<<>>, k, carry \div 2)
    ELSE LET n == IF Len(bits) < 12 THEN Len(bits) ELSE 12
             t == NatOfBits(SubSeq(bits, 1, n)) * k + carry
         IN  BitsOfNat(t % 2 ^ n, n)
                \o MulAdd(SubSeq(bits, n + 1, Len(bits)), k, t \div 2 ^ n)

\* the bits without the zeros above the highest one
Trim(bits) ==
    IF \A i \in 1 .. Len(bits) : bits[i] = 0 THEN <<>>
    ELSE SubSeq(bits, 1, CHOOSE h \in 1 .. Len(bits) :
                            /\ bits[h] = 1
                            /\ \A i \in h + 1 .. Len(bits) : bits[i] = 0)

\* round to nearest, ties to even: the exact value bits * 2^e as a float
RoundToFloat(bits0, e) ==
    LET bits == Trim(bits0)
        d == Len(bits) - Precision
    IN  IF d <= 0 THEN [m |-> bits, e |-> e]
        ELSE LET kept == SubSeq(bits, d + 1, Len(bits))
                 guard == bits[d]
                 sticky == \E i \in 1 .. d - 1 : bits[i] = 1
                 up == guard = 1 /\ (sticky \/ kept[1] = 1)
                 r == IF up THEN MulAdd(kept, 1, 1) ELSE kept
             IN  IF Len(r) > Precision
                 THEN [m |-> Tail(r), e |-> e + d + 1]
                 ELSE [m |-> r, e |-> e + d]

\* the binary expansion of r/d (0 < r < d), twelve places at a time: `acc'
\* holds the bits found so far, `n' counts the places still to come
RECURSIVE FloatOfRatioFrom(_, _, _, _)
FloatOfRatioFrom(r, d, acc, n) ==
    IF n = 0
    THEN [bits |-> acc, rest |-> r]
    ELSE LET t == r * 2 ^ 12
         IN  FloatOfRatioFrom(t % d, d, BitsOfNat(t \div d, 12) \o acc, n - 12)

\* the float nearest to r/d (d <= 2^6 * r): 72 places of the quotient hold
\* more than Precision + 2 significant bits, and what lies below them only
\* matters as being zero or not
FloatOfRatio(r, d) ==
    LET q == FloatOfRatioFrom(r, d, <<>>, 72)
    IN  RoundToFloat(<<IF q.rest = 0 THEN 0 ELSE 1>> \o q.bits, 0 - 73)

\* the literal 0.01
Float001 == FloatOfRatio(1, 100)

\* k * x for an int k >= 0 and a float x: the exact product, rounded
FloatMulInt(x, k) == RoundToFloat(MulAdd(x.m, k, 0), x.e)

\* int(math.ceil(x)) for a float x >= 0
Pow2(n) == 2 ^ n

CeilInt(x) ==
    IF x.m = <<>> THEN 0
    ELSE IF x.e >= 0 THEN NatOfBits(x.m) * Pow2(x.e)
    ELSE LET f == 0 - x.e
         IN  IF f >= Len(x.m) THEN 1
             ELSE NatOfBits(SubSeq(x.m, f + 1, Len(x.m)))
                    + (IF \E i \in 1 .. f : x.m[i] = 1 THEN 1 ELSE 0)

\* line 229: stop_at = self.cfg.cluster_percent * 0.01
stop_at(percent) == FloatMulInt(Float001, percent)

\* lines 265-266 with the slice one short: lumped_subsets[:cutoff - 1]
cutoff_exclusive(len, percent) ==
    CeilInt(FloatMulInt(stop_at(percent), len)) - 1

\* line 265: cutoff = int(math.ceil(len(lumped_subsets) * stop_at))
cutoff(len, percent) == CeilInt(FloatMulInt(stop_at(percent), len))

(***************************************************************************)
(* Steps shared by the strategies.                                         *)
(***************************************************************************)
SetRegistry(S) ==
    /\ schemes' = S.schemes
    /\ subsets' = S.subsets
    /\ created' = S.created

\* the run ends with an exception
Abort(e) ==
    /\ pc' = "failed"
    /\ error' = e

\* analyse_scheme(scheme) returned a result with this score
Analysed(key, score) ==
    /\ results' = consider(results, key, score)
    /\ analysed' = Append(analysed, key)
    /\ min_seen' = Min(min_seen, score)

(***************************************************************************)
(* GreedyAnalysis.do_analysis                                              *)
(***************************************************************************)
\* the strategies that run the step loop of lines 163-205: KmeansGreedy
\* repeats it, line for line, at lines 593-635
GreedyPass == {"greedy", "kmeans_greedy"}

\* lines 144-159: the start scheme is created and analysed
GreedyStart ==
    /\ search = "greedy" /\ pc = "start"
    /\ LET r == create_scheme(Registry, NameStart, start_description)
       IN  /\ SetRegistry(r.S)
           /\ IF r.raised # "none"
              THEN /\ Abort(Raised(r.raised))
                   /\ UNCHANGED <<results, analysed, min_seen, start_scheme,
                                  step, cur_s>>
              ELSE \E o \in OracleResults :
                     IF o.err # "none"
                     THEN /\ Abort(PhylogenyProgramError(o.err))
                          /\ analysed' = Append(analysed, NameStart)
                          /\ UNCHANGED <<results, min_seen, start_scheme,
                                         step, cur_s>>
                     ELSE /\ Analysed(NameStart, o.score)
                          /\ start_scheme' = NameStart
                          /\ step' = 1
                          /\ cur_s' = 2
                          /\ pc' = "loop"
                          /\ UNCHANGED error
    /\ UNCHANGED <<partnum, user_schemes, km,
                   call, workers, search, old_best_score, lumped_subsets, pos,
                   lumped_scheme, cluster_percent, ranking, scheme_name,
                   iterations, written, summaries>>

\* lines 164-169: a step begins
GreedyStep ==
    /\ search \in GreedyPass /\ pc = "loop"
    /\ iterations' = iterations + 1
    /\ old_best_score' = results.best_score
    /\ lumped_subsets' = combinations2(schemes[start_scheme].subsets)
    /\ pos' = 0
    /\ pc' = "for"
    /\ UNCHANGED <<partnum, user_schemes, km,
                   regvars, call, workers, search, error, results,
                   start_scheme, step, cur_s, lumped_scheme, cluster_percent,
                   ranking, scheme_name, analysed, min_seen, written,
                   summaries>>

\* lines 171-182: the body of the for loop, for the next grouping
GreedyLump ==
    /\ search \in GreedyPass /\ pc = "for"
    /\ pos < Len(lumped_subsets)
    /\ LET name == NameInt(cur_s)
           r == make_clustered_scheme(Registry, schemes[start_scheme], name,
                                      lumped_subsets[pos + 1])
       IN  /\ SetRegistry(r.S)
           /\ IF r.raised # "none"
              THEN /\ Abort(Raised(r.raised))
                   /\ UNCHANGED <<results, analysed, min_seen, lumped_scheme,
                                  cur_s, pos>>
              ELSE /\ lumped_scheme' = name
                   /\ analysed' = Append(analysed, name)
                   /\ \E o \in OracleResults :
                        IF o.err # "none"
                        THEN /\ Abort(PhylogenyProgramError(o.err))
                             /\ UNCHANGED <<results, min_seen, cur_s, pos>>
                        ELSE /\ results' = consider(results, name, o.score)
                             /\ min_seen' = Min(min_seen, o.score)
                             /\ cur_s' = cur_s + 1
                             /\ pos' = pos + 1
                             /\ UNCHANGED <<pc, error>>
    /\ UNCHANGED <<partnum, user_schemes, km,
                   call, workers, search, start_scheme, step, old_best_score,
                   lumped_subsets, cluster_percent, ranking, scheme_name,
                   iterations, written, summaries>>

\* GreedyCheck without the test of lines 202-203
GreedyCheck_NoCollapseTest ==
    /\ search \in GreedyPass /\ pc = "for"
    /\ pos = Len(lumped_subsets)
    /\ IF results.best_score # old_best_score
       THEN /\ schemes' = [schemes EXCEPT
                              ![results.best_scheme].name = NameStep(step)]
            /\ summaries' = Append(summaries, results.best_scheme)
            /\ start_scheme' = results.best_scheme
            /\ pc' = "loop" /\ step' = step + 1
       ELSE /\ pc' = "finish"
            /\ UNCHANGED <<schemes, summaries, start_scheme, step>>
    /\ UNCHANGED <<partnum, user_schemes, km,
                   subsets, created, call, workers, search, error, results,
                   cur_s, old_best_score, lumped_subsets, pos, lumped_scheme,
                   cluster_percent, ranking, scheme_name, analysed, min_seen,
                   iterations, written>>

\* lines 184-205: the for loop is exhausted
GreedyCheck ==
    /\ search \in GreedyPass /\ pc = "for"
    /\ pos = Len(lumped_subsets)
    /\ IF results.best_score # old_best_score
       THEN /\ schemes' = [schemes EXCEPT
                              ![results.best_scheme].name = NameStep(step)]
            /\ summaries' = Append(summaries, results.best_scheme)
            /\ start_scheme' = results.best_scheme
            /\ IF DistinctSubsets(schemes[lumped_scheme]) = 1
               THEN pc' = "finish" /\ UNCHANGED step
               ELSE pc' = "loop" /\ step' = step + 1
       ELSE /\ pc' = "finish"
            /\ UNCHANGED <<schemes, summaries, start_scheme, step>>
    /\ UNCHANGED <<partnum, user_schemes, km,
                   subsets, created, call, workers, search, error, results,
                   cur_s, old_best_score, lumped_subsets, pos, lumped_scheme,
                   cluster_percent, ranking, scheme_name, analysed, min_seen,
                   iterations, written>>

\* lines 207-211
GreedyFinish ==
    /\ search \in GreedyPass /\ pc = "finish"
    /\ written' = written + 1
    /\ pc' = "done"
    /\ UNCHANGED <<partnum, user_schemes, km,
                   regvars, call, workers, search, error, results,
                   start_scheme, step, cur_s, old_best_score, lumped_subsets,
                   pos, lumped_scheme, cluster_percent, ranking, scheme_name,
                   analysed, min_seen, iterations, summaries>>

GreedyNext == GreedyStart \/ GreedyStep \/ GreedyLump \/ GreedyCheck \/ GreedyFinish

(***************************************************************************)
(* StrictClusteringAnalysis.do_analysis                                    *)
(***************************************************************************)
\* lines 68-83
StrictStart ==
    /\ search = "hcluster" /\ pc = "start"
    /\ LET r == create_scheme(Registry, NameStart, start_description)
       IN  /\ SetRegistry(r.S)
           /\ IF r.raised # "none"
              THEN /\ Abort(Raised(r.raised))
                   /\ UNCHANGED <<results, analysed, min_seen, start_scheme,
                                  cur_s>>
              ELSE \E o \in OracleResults :
                     IF o.err # "none"
                     THEN /\ Abort(PhylogenyProgramError(o.err))
                          /\ analysed' = Append(analysed, NameStart)
                          /\ UNCHANGED <<results, min_seen, start_scheme,
                                         cur_s>>
                     ELSE /\ Analysed(NameStart, o.score)
                          /\ start_scheme' = NameStart
                          /\ cur_s' = 2
                          /\ pc' = "loop"
                          /\ UNCHANGED error
    /\ UNCHANGED <<partnum, user_schemes, km,
                   call, workers, search, step, old_best_score,
                   lumped_subsets, pos, lumped_scheme, cluster_percent,
                   ranking, scheme_name, iterations, written, summaries>>

\* neighbour.get_nearest_neighbour_scheme(start_scheme, scheme_name, cfg):
\* the groupings it may merge.  The similarity heuristic can rank any pair
\* of subsets first; a scheme of one subset has no pair, and the call then
\* either raises or hands back the scheme's only subset unmerged.
nearest_groupings(scheme) ==
    IF Len(scheme.subsets) >= 2
    THEN Range(combinations2(scheme.subsets))
    ELSE {<<>>, <<scheme.subsets[1]>>}

\* lines 88-106: one pass of the loop
StrictStep ==
    /\ search = "hcluster" /\ pc = "loop"
    /\ iterations' = iterations + 1
    /\ \E grouping \in nearest_groupings(schemes[start_scheme]) :
        IF grouping = <<>>
        THEN /\ Abort(Raised("ValueError"))
             /\ UNCHANGED <<regvars, results, analysed, min_seen,
                            start_scheme, cur_s, lumped_scheme>>
        ELSE
        LET name == NameStep(cur_s - 1)
            r == make_clustered_scheme(Registry, schemes[start_scheme], name,
                                       grouping)
        IN  /\ SetRegistry(r.S)
            /\ IF r.raised # "none"
               THEN /\ Abort(Raised(r.raised))
                    /\ UNCHANGED <<results, analysed, min_seen, start_scheme,
                                   cur_s, lumped_scheme>>
               ELSE /\ cur_s' = cur_s + 1
                    /\ lumped_scheme' = name
                    /\ analysed' = Append(analysed, name)
                    /\ \E o \in OracleResults :
                         IF o.err # "none"
                         THEN /\ Abort(PhylogenyProgramError(o.err))
                              /\ UNCHANGED <<results, min_seen, start_scheme>>
                         ELSE /\ results' = consider(results, name, o.score)
                              /\ min_seen' = Min(min_seen, o.score)
                              /\ UNCHANGED error
                              /\ IF DistinctSubsets(r.scheme) = 1
                                 THEN pc' = "finish" /\ UNCHANGED start_scheme
                                 ELSE pc' = "loop" /\ start_scheme' = name
    /\ UNCHANGED <<partnum, user_schemes, km,
                   call, workers, search, step, old_best_score,
                   lumped_subsets, pos, cluster_percent, ranking, scheme_name,
                   written, summaries>>

\* lines 108-110
StrictFinish ==
    /\ search = "hcluster" /\ pc = "finish"
    /\ written' = written + 1
    /\ pc' = "done"
    /\ UNCHANGED <<partnum, user_schemes, km,
                   regvars, call, workers, search, error, results,
                   start_scheme, step, cur_s, old_best_score, lumped_subsets,
                   pos, lumped_scheme, cluster_percent, ranking, scheme_name,
                   analysed, min_seen, iterations, summaries>>

StrictNext == StrictStart \/ StrictStep \/ StrictFinish

(***************************************************************************)
(* RelaxedClusteringAnalysis.do_analysis                                   *)
(***************************************************************************)
Reverse(s) == [i \in 1 .. Len(s) |-> s[Len(s) + 1 - i]]

\* neighbour.get_ranked_clustered_subsets(start_scheme, cfg): every pair of
\* subsets of the scheme, most similar first
get_ranked_clustered_subsets(scheme) ==
    IF ranking = "descending"
    THEN Reverse(combinations2(scheme.subsets))
    ELSE combinations2(scheme.subsets)

\* lines 229-252
RelaxedStart ==
    /\ search = "rcluster" /\ pc = "start"
    /\ LET r == create_scheme(Registry, NameStart, start_description)
       IN  /\ SetRegistry(r.S)
           /\ IF r.raised # "none"
              THEN /\ Abort(Raised(r.raised))
                   /\ UNCHANGED <<results, analysed, min_seen, start_scheme,
                                  step, summaries>>
              ELSE \E o \in OracleResults :
                     IF o.err # "none"
                     THEN /\ Abort(PhylogenyProgramError(o.err))
                          /\ analysed' = Append(analysed, NameStart)
                          /\ UNCHANGED <<results, min_seen, start_scheme,
                                         step, summaries>>
                     ELSE /\ Analysed(NameStart, o.score)
                          /\ summaries' = Append(summaries, NameStart)
                          /\ start_scheme' = NameStart
                          /\ step' = 1
                          /\ pc' = "loop"
                          /\ UNCHANGED error
    /\ UNCHANGED <<partnum, user_schemes, km,
                   call, workers, search, cur_s, old_best_score,
                   lumped_subsets, pos, lumped_scheme, cluster_percent,
                   ranking, scheme_name, iterations, written>>

\* lines 255-270: a step begins
RelaxedStep ==
    /\ search = "rcluster" /\ pc = "loop"
    /\ iterations' = iterations + 1
    /\ LET ranked == get_ranked_clustered_subsets(schemes[start_scheme])
           cut == cutoff(Len(ranked), cluster_percent)
       IN  lumped_subsets' = SubSeq(ranked, 1, Min(cut, Len(ranked)))
    /\ pos' = 0
    /\ old_best_score' = results.best_score
    /\ pc' = "for"
    /\ UNCHANGED <<partnum, user_schemes, km,
                   regvars, call, workers, search, error, results,
                   start_scheme, step, cur_s, lumped_scheme, cluster_percent,
                   ranking, scheme_name, analysed, min_seen, written,
                   summaries>>

\* lines 272-283: the body of the for loop, for the next grouping
RelaxedLump ==
    /\ search = "rcluster" /\ pc = "for"
    /\ pos < Len(lumped_subsets)
    /\ LET name == NameStepSub(step, pos + 1)
           r == make_clustered_scheme(Registry, schemes[start_scheme], name,
                                      lumped_subsets[pos + 1])
       IN  /\ SetRegistry(r.S)
           /\ IF r.raised # "none"
              THEN /\ Abort(Raised(r.raised))
                   /\ UNCHANGED <<results, analysed, min_seen, lumped_scheme,
                                  pos>>
              ELSE /\ lumped_scheme' = name
                   /\ analysed' = Append(analysed, name)
                   /\ \E o \in OracleResults :
                        IF o.err # "none"
                        THEN /\ Abort(PhylogenyProgramError(o.err))
                             /\ UNCHANGED <<results, min_seen, pos>>
                        ELSE /\ results' = consider(results, name, o.score)
                             /\ min_seen' = Min(min_seen, o.score)
                             /\ pos' = pos + 1
                             /\ UNCHANGED <<pc, error>>
    /\ UNCHANGED <<partnum, user_schemes, km,
                   call, workers, search, start_scheme, step, cur_s,
                   old_best_score, lumped_subsets, cluster_percent, ranking,
                   scheme_name, iterations, written, summaries>>

\* lines 285-306: the for loop is exhausted
RelaxedCheck ==
    /\ search = "rcluster" /\ pc = "for"
    /\ pos = Len(lumped_subsets)
    /\ IF results.best_score # old_best_score
       THEN /\ schemes' = [schemes EXCEPT
                              ![results.best_scheme].name = NameStep(step)]
            /\ summaries' = Append(summaries, results.best_scheme)
            /\ start_scheme' = results.best_scheme
            /\ IF DistinctSubsets(schemes[lumped_scheme]) = 1
               THEN pc' = "finish" /\ UNCHANGED step
               ELSE pc' = "loop" /\ step' = step + 1
       ELSE /\ pc' = "finish"
            /\ UNCHANGED <<schemes, summaries, start_scheme, step>>
    /\ UNCHANGED <<partnum, user_schemes, km,
                   subsets, created, call, workers, search, error, results,
                   cur_s, old_best_score, lumped_subsets, pos, lumped_scheme,
                   cluster_percent, ranking, scheme_name, analysed, min_seen,
                   iterations, written>>

\* lines 308-312
RelaxedFinish ==
    /\ search = "rcluster" /\ pc = "finish"
    /\ written' = written + 1
    /\ pc' = "done"
    /\ UNCHANGED <<partnum, user_schemes, km,
                   regvars, call, workers, search, error, results,
                   start_scheme, step, cur_s, old_best_score, lumped_subsets,
                   pos, lumped_scheme, cluster_percent, ranking, scheme_name,
                   analysed, min_seen, iterations, summaries>>

RelaxedNext ==
    RelaxedStart \/ RelaxedStep \/ RelaxedLump \/ RelaxedCheck \/ RelaxedFinish

(***************************************************************************)
(* AllAnalysis.do_analysis                                                 *)
(***************************************************************************)
RECURSIVE MaxOf(_)
MaxOf(pat) == IF pat = <<>> THEN 0 ELSE Max(Head(pat), MaxOf(Tail(pat)))

\* submodels.submodel_iterator(pat, current, maxn): the patterns that extend
\* `pat', where position `current' takes the labels 1 .. max(pat) + 1 in
\* turn; a pattern labels each partition with the number of its subset
RECURSIVE submodel_iterator(_, _, _)
RECURSIVE submodel_labels(_, _, _, _)
submodel_labels(pat, current, maxn, i) ==
    IF i > current \/ i > MaxOf(pat) + 1 THEN <<>>
    ELSE (IF current = maxn THEN <<Append(pat, i)>>
          ELSE submodel_iterator(Append(pat, i), current + 1, maxn))
            \o submodel_labels(pat, current, maxn, i + 1)
submodel_iterator(pat, current, maxn) == submodel_labels(pat, current, maxn, 1)

\* scheme.model_to_scheme(m, scheme_name, cfg): the subsets of the pattern,
\* by label
model_description(m) ==
    [l \in 1 .. MaxOf(m) |-> SortedSeq({p \in 1 .. Len(m) : m[p] = l})]

model_to_scheme(S, m, name) == SchemeInit(S, name, model_description(m))

\* lines 116-126
AllStart ==
    /\ search = "all" /\ pc = "start"
    /\ scheme_name' = 1
    /\ pos' = 0
    /\ pc' = "for"
    /\ UNCHANGED <<partnum, user_schemes, km,
                   regvars, call, workers, search, error, results,
                   start_scheme, step, cur_s, old_best_score, lumped_subsets,
                   lumped_scheme, cluster_percent, ranking, analysed,
                   min_seen, iterations, written, summaries>>

\* AllScheme without line 129: every scheme gets the same name
AllScheme_SameName ==
    /\ search = "all" /\ pc = "for"
    /\ LET model_iterator == submodel_iterator(<<>>, 1, partnum)
       IN  /\ pos < Len(model_iterator)
           /\ LET name == NameInt(scheme_name)
                  r == model_to_scheme(Registry, model_iterator[pos + 1], name)
              IN  /\ SetRegistry(r.S)
                  /\ IF r.raised # "none"
                     THEN /\ Abort(Raised(r.raised))
                          /\ UNCHANGED <<results, analysed, min_seen,
                                         scheme_name, pos, summaries>>
                     ELSE /\ scheme_name' = scheme_name
                          /\ analysed' = Append(analysed, name)
                          /\ \E o \in OracleResults :
                               IF o.err # "none"
                               THEN /\ Abort(PhylogenyProgramError(o.err))
                                    /\ UNCHANGED <<results, min_seen, pos,
                                                   summaries>>
                               ELSE /\ results' = consider(results, name, o.score)
                                    /\ min_seen' = Min(min_seen, o.score)
                                    /\ summaries' = Append(summaries, name)
                                    /\ pos' = pos + 1
                                    /\ UNCHANGED <<pc, error>>
    /\ UNCHANGED <<partnum, user_schemes, km,
                   call, workers, search, start_scheme, step, cur_s,
                   old_best_score, lumped_subsets, lumped_scheme,
                   cluster_percent, ranking, iterations, written>>

\* lines 127-133: the body of the for loop, for the next pattern
AllScheme ==
    /\ search = "all" /\ pc = "for"
    /\ LET model_iterator == submodel_iterator(<<>>, 1, partnum)
       IN  /\ pos < Len(model_iterator)
           /\ LET name == NameInt(scheme_name)
                  r == model_to_scheme(Registry, model_iterator[pos + 1], name)
              IN  /\ SetRegistry(r.S)
                  /\ IF r.raised # "none"
                     THEN /\ Abort(Raised(r.raised))
                          /\ UNCHANGED <<results, analysed, min_seen,
                                         scheme_name, pos, summaries>>
                     ELSE /\ scheme_name' = scheme_name + 1
                          /\ analysed' = Append(analysed, name)
                          /\ \E o \in OracleResults :
                               IF o.err # "none"
                               THEN /\ Abort(PhylogenyProgramError(o.err))
                                    /\ UNCHANGED <<results, min_seen, pos,
                                                   summaries>>
                               ELSE /\ results' = consider(results, name, o.score)
                                    /\ min_seen' = Min(min_seen, o.score)
                                    /\ summaries' = Append(summaries, name)
                                    /\ pos' = pos + 1
                                    /\ UNCHANGED <<pc, error>>
    /\ UNCHANGED <<partnum, user_schemes, km,
                   call, workers, search, start_scheme, step, cur_s,
                   old_best_score, lumped_subsets, lumped_scheme,
                   cluster_percent, ranking, iterations, written>>

\* line 135: the iterator is exhausted
AllFinish ==
    /\ search = "all" /\ pc = "for"
    /\ pos = Len(submodel_iterator(<<>>, 1, partnum))
    /\ written' = written + 1
    /\ pc' = "done"
    /\ UNCHANGED <<partnum, user_schemes, km,
                   regvars, call, workers, search, error, results,
                   start_scheme, step, cur_s, old_best_score, lumped_subsets,
                   pos, lumped_scheme, cluster_percent, ranking, scheme_name,
                   analysed, min_seen, iterations, summaries>>

AllNext == AllStart \/ AllScheme \/ AllFinish

(***************************************************************************)
(* UserAnalysis.do_analysis                                                *)
(***************************************************************************)
NameUser(i) == <<"user", i, 0>>

\* the description of the i-th scheme of the configuration file: the odd ones
\* keep every partition apart, the even ones put all of them together
UserDescription(i) ==
    IF i % 2 = 1 THEN start_description ELSE <<[p \in 1 .. partnum |-> p]>>

\* the configuration file defines one more user scheme, before do_analysis
UserDefine ==
    /\ search = "user" /\ pc = "start"
    /\ Len(user_schemes) < MaxUserSchemes
    /\ LET name == NameUser(Len(user_schemes) + 1)
           r == SchemeInit(Registry, name,
                           UserDescription(Len(user_schemes) + 1))
       IN  /\ r.raised = "none"
           /\ SetRegistry(r.S)
           /\ user_schemes' = Append(user_schemes, name)
    /\ UNCHANGED <<partnum, km, call, workers, search, pc, error, results,
                   start_scheme, step, cur_s, old_best_score, lumped_subsets,
                   pos, lumped_scheme, cluster_percent, ranking, scheme_name,
                   analysed, min_seen, iterations, written, summaries>>

\* UserStart without the test of line 42: the loop runs over any list
UserStart_NoCheck ==
    /\ search = "user" /\ pc = "start"
    /\ pc' = "for" /\ pos' = 0 /\ UNCHANGED error
    /\ UNCHANGED <<partnum, user_schemes, km, regvars, call, workers, search, results,
                   start_scheme, step, cur_s, old_best_score, lumped_subsets,
                   lumped_scheme, cluster_percent, ranking, scheme_name,
                   analysed, min_seen, iterations, written, summaries>>

\* lines 37-42 and 48-50
UserStart ==
    /\ search = "user" /\ pc = "start"
    /\ IF Len(user_schemes) > 0
       THEN pc' = "for" /\ pos' = 0 /\ UNCHANGED error
       ELSE Abort(Raised("AnalysisError")) /\ UNCHANGED pos
    /\ UNCHANGED <<partnum, user_schemes, km, regvars, call, workers, search, results,
                   start_scheme, step, cur_s, old_best_score, lumped_subsets,
                   lumped_scheme, cluster_percent, ranking, scheme_name,
                   analysed, min_seen, iterations, written, summaries>>

\* lines 43-47: the body of the for loop, for the next scheme of the list
UserScheme ==
    /\ search = "user" /\ pc = "for"
    /\ pos < Len(user_schemes)
    /\ LET s == user_schemes[pos + 1]
       IN  /\ analysed' = Append(analysed, s)
           /\ \E o \in OracleResults :
                IF o.err # "none"
                THEN /\ Abort(PhylogenyProgramError(o.err))
                     /\ UNCHANGED <<results, min_seen, summaries, pos>>
                ELSE /\ results' = consider(results, s, o.score)
                     /\ min_seen' = Min(min_seen, o.score)
                     /\ summaries' = Append(summaries, s)
                     /\ pos' = pos + 1
                     /\ UNCHANGED <<pc, error>>
    /\ UNCHANGED <<partnum, user_schemes, km, regvars, call, workers, search,
                   start_scheme, step, cur_s, old_best_score, lumped_subsets,
                   lumped_scheme, cluster_percent, ranking, scheme_name,
                   iterations, written>>

\* lines 52-54
UserFinish ==
    /\ search = "user" /\ pc = "for"
    /\ pos = Len(user_schemes)
    /\ written' = written + 1
    /\ pc' = "done"
    /\ UNCHANGED <<partnum, user_schemes, km, regvars, call, workers, search, error,
                   results, start_scheme, step, cur_s, old_best_score,
                   lumped_subsets, pos, lumped_scheme, cluster_percent,
                   ranking, scheme_name, analysed, min_seen, iterations,
                   summaries>>

UserNext == UserDefine \/ UserStart \/ UserScheme \/ UserFinish

(***************************************************************************)
(* The k-means strategies.  They split subsets into sets of columns, so in *)
(* their runs the partitions of the registry are the single columns of the *)
(* alignment and the user's data blocks (cfg.user_subsets) are km.blocks.  *)
(* km.cached is the score the oracle gave km.best_scheme: analysing a      *)
(* scheme again returns the score it got before.                           *)
(***************************************************************************)
NameSplit == <<"split_scheme", 0, 0>>
NameCurrent == <<"Current Scheme", 0, 0>>

\* Subset.columns
columns(sub) == columnset(sub.id)

\* range(partnum) for the data blocks: every block a subset of its own
block_description == [b \in 1 .. Len(km.blocks) |-> SortedSeq(km.blocks[b])]

\* the ways to cut a set of columns into two pieces of at least two columns
\* each, the piece with the lowest column first
Splits(cols) ==
    {<<a, cols \ a>> : a \in {x \in SUBSET cols :
                               /\ Cardinality(x) >= 2
                               /\ Cardinality(cols \ x) >= 2
                               /\ \E c \in x : \A d \in cols : c <= d}}

\* kmeans.kmeans_split_subset returns 1 when a piece has fewer than 2 sites
Infeasible == <<>>

\* kmeans.kmeans_split_subset(cfg, alignment, subset, tree_path): what it may
\* return, the pieces given by their columns
kmeans_split_subset(sub) == {Infeasible} \cup Splits(sub.id)

\* kmeans.kmeans_wrapper(cfg, alignment, subset, tree_path): the subset as
\* it is or cut in two
kmeans_wrapper(sub) == {<<sub.id>>} \cup Splits(sub.id)

\* the lists line 445 can accumulate over the subsets of the start scheme
RECURSIVE wrapper_lists(_)
wrapper_lists(subs) ==
    IF subs = <<>> THEN {<<>>}
    ELSE {h \o t : h \in kmeans_wrapper(Head(subs)),
                   t \in wrapper_lists(Tail(subs))}

\* updated_subsets[subset_index:subset_index+1] = split_subsets, on the
\* column sets of the subsets
updated_subsets(split_subsets) ==
    [i \in 1 .. km.subset_index |-> km.all_subsets[i].id]
        \o split_subsets
        \o [i \in 1 .. Len(km.all_subsets) - km.subset_index - 1 |->
               km.all_subsets[km.subset_index + 1 + i].id]

\* scheme.Scheme(self.cfg, name, list of subsets)
SchemeOfSubsets(S, name, ids) ==
    SchemeInit(S, name, [i \in 1 .. Len(ids) |-> SortedSeq(ids[i])])

\* what the steps of the k-means strategies leave alone
kmframe ==
    <<partnum, user_schemes, call, workers, search, old_best_score, lumped_subsets,
      pos, lumped_scheme, cluster_percent, ranking, scheme_name, written,
      summaries>>

\* lines 347 and 359 (463, 540): subset_index += 1 and back to the loop test
NextSubset_Stay(calls, why) ==
    /\ km' = [km EXCEPT !.split_calls = calls, !.last = why]
    /\ UNCHANGED <<regvars, analysed, results, min_seen, pc, error>>

NextSubset(calls, why) ==
    /\ km' = [km EXCEPT !.subset_index = @ + 1, !.split_calls = calls,
                        !.last = why]
    /\ UNCHANGED <<regvars, analysed, results, min_seen, pc, error>>

\* lines 400-411 (485-495, 560-569): the test scheme is adopted iff its
\* score is strictly lower; only the plain variant assigns best_score here
compare_advance(k, test, new_score, best_score, plain) ==
    IF new_score < best_score
    THEN [k EXCEPT !.best_scheme = test.name, !.all_subsets = test.subsets,
                   !.subset_index = @ + 1, !.cached = new_score,
                   !.best_score = IF plain THEN new_score ELSE @,
                   !.last = "scored"]
    ELSE [k EXCEPT !.subset_index = @ + 1, !.last = "scored"]

compare_keep_list(k, test, new_score, best_score, plain) ==
    IF new_score < best_score
    THEN [k EXCEPT !.best_scheme = test.name, !.cached = new_score,
                   !.subset_index = @ + 1,
                   !.best_score = IF plain THEN new_score ELSE @,
                   !.last = "scored"]
    ELSE [k EXCEPT !.subset_index = @ + 1, !.last = "scored"]

compare(k, test, new_score, best_score, plain) ==
    IF new_score < best_score
    THEN [k EXCEPT !.best_scheme = test.name, !.all_subsets = test.subsets,
                   !.cached = new_score,
                   !.best_score = IF plain THEN new_score ELSE @,
                   !.last = "scored"]
    ELSE [k EXCEPT !.subset_index = @ + 1, !.last = "scored"]

\* lines 317-338: KmeansAnalysis creates the start scheme and analyses it
\* twice
KmeansStart ==
    /\ search = "kmeans" /\ pc = "start"
    /\ LET r == create_scheme(Registry, NameStart, block_description)
       IN  /\ SetRegistry(r.S)
           /\ IF r.raised # "none"
              THEN /\ Abort(Raised(r.raised))
                   /\ UNCHANGED <<results, analysed, min_seen, km>>
              ELSE \E o \in OracleResults :
                     IF o.err # "none"
                     THEN /\ Abort(PhylogenyProgramError(o.err))
                          /\ analysed' = Append(analysed, NameStart)
                          /\ UNCHANGED <<results, min_seen, km>>
                     ELSE /\ results' = consider(results, NameStart, o.score)
                          /\ analysed' = analysed \o <<NameStart, NameStart>>
                          /\ min_seen' = Min(min_seen, o.score)
                          /\ km' = [km EXCEPT !.best_scheme = NameStart,
                                              !.all_subsets = r.scheme.subsets,
                                              !.best_score = o.score,
                                              !.cached = o.score]
                          /\ pc' = "split"
                          /\ UNCHANGED error
    /\ UNCHANGED <<kmframe, iterations, start_scheme, step, cur_s>>

\* lines 374-411: the test scheme of the plain variant is analysed.  A
\* recoverable failure advances the cursor and falls through to line 398,
\* where new_score is read: unbound, unless an earlier test was scored
KmeansTested(k, test, o) ==
    IF o.err = "other"
    THEN /\ Abort(PhylogenyProgramError(o.err))
         /\ km' = [k EXCEPT !.last = "other"]
         /\ UNCHANGED <<results, min_seen>>
    ELSE IF o.err = "recoverable"
    THEN LET k1 == [k EXCEPT !.subset_index = @ + 1]
         IN  /\ UNCHANGED <<results, min_seen>>
             /\ IF k.new_score = Unbound
                THEN /\ Abort(Raised("UnboundLocalError"))
                     /\ km' = [k1 EXCEPT !.last = "recoverable"]
                ELSE /\ km' = [compare(k1, test, k.new_score, k.best_score,
                                       TRUE) EXCEPT !.last = "stale"]
                     /\ UNCHANGED <<pc, error>>
    ELSE /\ results' = consider(results, test.name, o.score)
         /\ min_seen' = Min(min_seen, o.score)
         /\ km' = compare([k EXCEPT !.new_score = o.score], test, o.score,
                          k.best_score, TRUE)
         /\ UNCHANGED <<pc, error>>

\* lines 340-411: one pass through the body of KmeansAnalysis's loop
KmeansIter ==
    /\ search = "kmeans" /\ pc = "split"
    /\ km.subset_index < Len(km.all_subsets)
    /\ iterations' = iterations + 1
    /\ LET current_subset == km.all_subsets[km.subset_index + 1]
           calls == km.split_calls \cup {current_subset.id}
       IN  IF Cardinality(columns(current_subset)) = 1
           THEN NextSubset(km.split_calls, "one column")
           ELSE \E split_subsets \in kmeans_split_subset(current_subset) :
                  IF split_subsets = Infeasible
                  THEN NextSubset(calls, "infeasible")
                  ELSE LET r == SchemeOfSubsets(Registry, NameCurrent,
                                    updated_subsets(split_subsets))
                           k == [km EXCEPT !.split_calls = calls,
                                           !.tests = @ + 1]
                       IN  /\ SetRegistry(r.S)
                           /\ IF r.raised # "none"
                              THEN /\ Abort(Raised(r.raised))
                                   /\ km' = [k EXCEPT !.last = "not built"]
                                   /\ UNCHANGED <<analysed, results, min_seen>>
                              ELSE /\ analysed' = Append(analysed, NameCurrent)
                                   /\ \E o \in OracleResults :
                                        KmeansTested(k, r.scheme, o)
    /\ UNCHANGED <<kmframe, start_scheme, step, cur_s>>

\* lines 418-452: KmeansAnalysisWrapper analyses the start scheme, clusters
\* every subset of it once and starts from the better of the two schemes
WrapperStart ==
    /\ search = "kmeans_wss" /\ pc = "start"
    /\ LET r == create_scheme(Registry, NameStart, block_description)
       IN  IF r.raised # "none"
           THEN /\ SetRegistry(r.S)
                /\ Abort(Raised(r.raised))
                /\ UNCHANGED <<results, analysed, min_seen, km>>
           ELSE \E o \in OracleResults :
                  IF o.err # "none"
                  THEN /\ SetRegistry(r.S)
                       /\ Abort(PhylogenyProgramError(o.err))
                       /\ analysed' = Append(analysed, NameStart)
                       /\ UNCHANGED <<results, min_seen, km>>
                  ELSE \E split_subsets \in wrapper_lists(r.scheme.subsets) :
                       LET r2 == SchemeOfSubsets(r.S, NameSplit, split_subsets)
                           unsplit == Len(split_subsets) = Len(r.scheme.subsets)
                           k == [km EXCEPT !.best_scheme = NameStart,
                                           !.best_score = o.score,
                                           !.cached = o.score]
                           res == consider(results, NameStart, o.score)
                       IN  /\ SetRegistry(r2.S)
                           /\ IF r2.raised # "none"
                              THEN /\ Abort(Raised(r2.raised))
                                   /\ analysed' = Append(analysed, NameStart)
                                   /\ results' = res
                                   /\ min_seen' = Min(min_seen, o.score)
                                   /\ km' = k
                              ELSE \E o2 \in OracleResults :
                                   /\ unsplit => o2 = o
                                   /\ analysed' = analysed \o
                                        <<NameStart, NameStart, NameSplit>>
                                   /\ IF o2.err # "none"
                                      THEN /\ Abort(PhylogenyProgramError(o2.err))
                                           /\ results' = res
                                           /\ min_seen' = Min(min_seen, o.score)
                                           /\ km' = k
                                      ELSE /\ results' = consider(res, NameSplit,
                                                                  o2.score)
                                           /\ min_seen' = Min(Min(min_seen, o.score),
                                                              o2.score)
                                           /\ km' =
                                               IF o2.score < o.score
                                               THEN [k EXCEPT
                                                     !.best_scheme = NameSplit,
                                                     !.cached = o2.score,
                                                     !.all_subsets = r2.scheme.subsets]
                                               ELSE [k EXCEPT
                                                     !.all_subsets = r.scheme.subsets]
                                           /\ pc' = "split"
                                           /\ UNCHANGED error
    /\ UNCHANGED <<kmframe, iterations, start_scheme, step, cur_s>>

\* lines 510-532: KmeansGreedy creates the start scheme and analyses it; the
\* score goes to old_score, and best_score is not assigned before line 555
KmeansGreedyStart ==
    /\ search = "kmeans_greedy" /\ pc = "start"
    /\ LET r == create_scheme(Registry, NameStart, block_description)
       IN  /\ SetRegistry(r.S)
           /\ IF r.raised # "none"
              THEN /\ Abort(Raised(r.raised))
                   /\ UNCHANGED <<results, analysed, min_seen, km>>
              ELSE \E o \in OracleResults :
                     IF o.err # "none"
                     THEN /\ Abort(PhylogenyProgramError(o.err))
                          /\ analysed' = Append(analysed, NameStart)
                          /\ UNCHANGED <<results, min_seen, km>>
                     ELSE /\ Analysed(NameStart, o.score)
                          /\ km' = [km EXCEPT !.best_scheme = NameStart,
                                              !.all_subsets = r.scheme.subsets,
                                              !.cached = o.score]
                          /\ pc' = "split"
                          /\ UNCHANGED error
    /\ UNCHANGED <<kmframe, iterations, start_scheme, step, cur_s>>

\* lines 478-503 (554-575): the best scheme is analysed again, which returns
\* the score it has, then the test scheme; whatever PhylogenyProgramError
\* the oracle raises, the handler advances the cursor
WrapperTested(k, test, o) ==
    LET kb == [k EXCEPT !.best_score = k.cached]
        res == consider(results, k.best_scheme, k.cached)
    IN  /\ analysed' = analysed \o <<k.best_scheme, test.name>>
        /\ UNCHANGED <<pc, error>>
        /\ IF o.err # "none"
           THEN /\ km' = [kb EXCEPT !.subset_index = @ + 1,
                                    !.last = o.err]
                /\ results' = res
                /\ UNCHANGED min_seen
           ELSE /\ km' = compare([kb EXCEPT !.new_score = o.score], test,
                                 o.score, kb.best_score, FALSE)
                /\ results' = consider(res, test.name, o.score)
                /\ min_seen' = Min(min_seen, o.score)

\* lines 454-503 (535-575): one pass through the body of the loop of
\* KmeansAnalysisWrapper and of KmeansGreedy
WrapperIter ==
    /\ search \in {"kmeans_wss", "kmeans_greedy"} /\ pc = "split"
    /\ km.subset_index < Len(km.all_subsets)
    /\ iterations' = iterations + 1
    /\ LET current_subset == km.all_subsets[km.subset_index + 1]
           calls == km.split_calls \cup {current_subset.id}
       IN  \E split_subsets \in kmeans_split_subset(current_subset) :
             IF split_subsets = Infeasible
             THEN NextSubset(calls, "infeasible")
             ELSE LET r == SchemeOfSubsets(Registry, NameCurrent,
                               updated_subsets(split_subsets))
                      k == [km EXCEPT !.split_calls = calls, !.tests = @ + 1]
                  IN  /\ SetRegistry(r.S)
                      /\ IF r.raised # "none"
                         THEN /\ Abort(Raised(r.raised))
                              /\ km' = [k EXCEPT !.last = "not built"]
                              /\ UNCHANGED <<analysed, results, min_seen>>
                         ELSE \E o \in OracleResults :
                                WrapperTested(k, r.scheme, o)
    /\ UNCHANGED <<kmframe, start_scheme, step, cur_s>>

KmeansFinish_NoWrite ==
    /\ search \in {"kmeans", "kmeans_wss"} /\ pc = "split"
    /\ km.subset_index >= Len(km.all_subsets)
    /\ pc' = "done"
    /\ UNCHANGED <<partnum, user_schemes, km, regvars, call, workers, search, error,
                   results, start_scheme, step, cur_s, old_best_score,
                   lumped_subsets, pos, lumped_scheme, cluster_percent,
                   ranking, scheme_name, analysed, min_seen, iterations,
                   written, summaries>>

\* lines 412 and 505: the loop is over, the best scheme is written
KmeansFinish ==
    /\ search \in {"kmeans", "kmeans_wss"} /\ pc = "split"
    /\ km.subset_index >= Len(km.all_subsets)
    /\ written' = written + 1
    /\ pc' = "done"
    /\ UNCHANGED <<partnum, user_schemes, km, regvars, call, workers, search, error,
                   results, start_scheme, step, cur_s, old_best_score,
                   lumped_subsets, pos, lumped_scheme, cluster_percent,
                   ranking, scheme_name, analysed, min_seen, iterations,
                   summaries>>

\* lines 579-589: KmeansGreedy goes on with the Greedy steps, from the best
\* scheme of the splitting
KmeansGreedyPass ==
    /\ search = "kmeans_greedy" /\ pc = "split"
    /\ km.subset_index >= Len(km.all_subsets)
    /\ start_scheme' = km.best_scheme
    /\ step' = 1
    /\ cur_s' = 2
    /\ pc' = "loop"
    /\ UNCHANGED <<partnum, user_schemes, km, regvars, call, workers, search, error,
                   results, old_best_score, lumped_subsets, pos,
                   lumped_scheme, cluster_percent, ranking, scheme_name,
                   analysed, min_seen, iterations, written, summaries>>

KmeansNext ==
    \/ KmeansStart
    \/ KmeansIter
    \/ WrapperStart
    \/ KmeansGreedyStart
    \/ WrapperIter
    \/ KmeansFinish
    \/ KmeansGreedyPass
    \/ GreedyStep
    \/ GreedyLump
    \/ GreedyCheck
    \/ GreedyFinish

(***************************************************************************)
(* The runs: one strategy, started from partnum partitions.                *)
(***************************************************************************)
RunSetup(searches, maxparts) ==
    /\ partnum \in 1 .. maxparts
    /\ schemes = SchemeSetInit(partnum).schemes
    /\ subsets = SchemeSetInit(partnum).subsets
    /\ created = SchemeSetInit(partnum).created
    /\ call = NoCall
    /\ workers = NoWorkers
    /\ \E s \in searches : RunInit(s)
    /\ user_schemes = <<>>
    /\ km = NoKm

InitGreedy ==
    /\ RunSetup({"greedy"}, MaxPartnum)
    /\ cluster_percent = 0
    /\ ranking = "none"

SpecGreedy == InitGreedy /\ [][GreedyNext]_vars

InitStrict ==
    /\ RunSetup({"hcluster"}, MaxPartnum)
    /\ cluster_percent = 0
    /\ ranking = "none"

SpecStrict == InitStrict /\ [][StrictNext]_vars

\* the strategies of the k-means family
Kmeans == {"kmeans", "kmeans_wss", "kmeans_greedy"}

\* the ways to lay n columns out in at most MaxBlocks data blocks of
\* consecutive columns
Layouts(n) ==
    {LET ends == SortedSeq(c \cup {n})
     IN  [i \in 1 .. Len(ends) |->
            ((IF i = 1 THEN 0 ELSE ends[i - 1]) + 1) .. ends[i]] :
       c \in {x \in SUBSET (1 .. (n - 1)) : Cardinality(x) < MaxBlocks}}

InitKmeans ==
    /\ partnum \in 1 .. MaxColumns
    /\ schemes = SchemeSetInit(partnum).schemes
    /\ subsets = SchemeSetInit(partnum).subsets
    /\ created = SchemeSetInit(partnum).created
    /\ call = NoCall
    /\ workers = NoWorkers
    /\ \E s \in Kmeans : RunInit(s)
    /\ user_schemes = <<>>
    /\ km \in {[NoKm EXCEPT !.blocks = b] : b \in Layouts(partnum)}
    /\ cluster_percent = 0
    /\ ranking = "none"

SpecKmeans == InitKmeans /\ [][KmeansNext]_vars

\* the values of cluster_percent and the rankings the runs are started with
Percents == {0, 10, 25, 50, 70, 100}
Rankings == {"ascending", "descending"}

InitRelaxed ==
    /\ RunSetup({"rcluster"}, MaxPartnum)
    /\ cluster_percent \in Percents
    /\ ranking \in Rankings

SpecRelaxed == InitRelaxed /\ [][RelaxedNext]_vars

InitAll ==
    /\ RunSetup({"all"}, MaxAllParts)
    /\ cluster_percent = 0
    /\ ranking = "none"

SpecAll == InitAll /\ [][AllNext]_vars

\* the three agglomerative strategies
InitCluster ==
    /\ RunSetup({"greedy", "hcluster", "rcluster"}, MaxPartnum)
    /\ cluster_percent \in (IF search = "rcluster" THEN Percents ELSE {0})
    /\ ranking \in (IF search = "rcluster" THEN Rankings ELSE {"none"})

ClusterNext == GreedyNext \/ StrictNext \/ RelaxedNext

SpecCluster == InitCluster /\ [][ClusterNext]_vars

\* the User strategy over a configuration of up to MaxUserSchemes schemes
InitUser ==
    /\ RunSetup({"user"}, MaxAllParts)
    /\ cluster_percent = 0
    /\ ranking = "none"

SpecUser == InitUser /\ [][UserNext]_vars

\* every strategy: the agglomerative ones from up to MaxAllParts partitions
InitRuns ==
    \/ /\ RunSetup({"greedy", "hcluster", "rcluster"}, MaxAllParts)
       /\ cluster_percent \in (IF search = "rcluster" THEN Percents ELSE {0})
       /\ ranking \in (IF search = "rcluster" THEN Rankings ELSE {"none"})
    \/ InitAll
    \/ InitUser
    \/ InitKmeans

RunsNext == ClusterNext \/ AllNext \/ UserNext \/ KmeansNext

SpecRuns == InitRuns /\ [][RunsNext]_vars

(***************************************************************************)
(* Properties of the registry.                                             *)
(***************************************************************************)
\* how many subsets of a scheme contain column c
Covering(scheme, c) ==
    Cardinality({i \in 1 .. Len(scheme.subsets) :
                    c \in columnset(scheme.subsets[i].id)})

\* C1: a Scheme construction whose groups overlap or leave a column
\* uncovered raises SchemeError and registers nothing, so every registered
\* scheme covers each column of the universe exactly once.
C1_PartitionProperty ==
    /\ (call.op = "Scheme" /\ ~call.unknown /\ (call.overlap \/ call.gap))
           => (call.raised = "SchemeError" /\ ~call.added)
    /\ \A name \in DOMAIN schemes : \A c \in partitions_columnset :
           Covering(schemes[name], c) = 1

C2_Inv ==
    /\ \A k \in DOMAIN created : created[k] <= 1
    /\ \A k \in DOMAIN subsets : subsets[k] = Subset(k, 1)
    /\ \A name \in DOMAIN schemes : \A i \in 1 .. Len(schemes[name].subsets) :
           LET sub == schemes[name].subsets[i]
           IN  sub.id \in DOMAIN subsets /\ subsets[sub.id] = sub
    /\ call.op = "get_subset" =>
           (call.ret.id \in DOMAIN subsets /\ subsets[call.ret.id] = call.ret)

C2_Stable ==
    \A k \in DOMAIN subsets : k \in DOMAIN subsets' /\ subsets'[k] = subsets[k]

\* C2: requests for the same set of partition ids return the identical
\* Subset object, there is exactly one Subset per distinct id set, and a
\* cache entry is never replaced or removed.
C2_Interning == []C2_Inv /\ [][C2_Stable]_vars

\* a get_subset call for a set of several ids was answered with the Subset
\* a registered scheme holds
C2_Witness ==
    /\ call.op = "get_subset"
    /\ Cardinality(call.ret.id) > 1
    /\ \E name \in DOMAIN schemes : call.ret \in Range(schemes[name].subsets)

\* C3: a Scheme construction with a group naming an unknown partition fails
\* with SchemeError, no other error, and registers no scheme.
C3_UnknownPartition ==
    (call.op = "Scheme" /\ call.unknown)
        => (call.raised = "SchemeError" /\ ~call.added)

\* C4: constructing a Scheme under a name that is already registered raises
\* SchemeError, the scheme registered under that name stays, unchanged, and
\* the registry never holds two schemes under one name.
C4_DuplicateName ==
    /\ (call.op = "Scheme" /\ call.dupname)
           => (call.raised = "SchemeError" /\ ~call.added /\ call.kept)
    /\ \A name \in DOMAIN schemes : schemes[name].name = name

(***************************************************************************)
(* Properties of the strategy runs.                                        *)
(***************************************************************************)
Clustering == {"greedy", "hcluster", "rcluster"}

C5_NeverWorse ==
    search \in Clustering => results'.best_score <= results.best_score

\* C5: in a Greedy, Strict or Relaxed clustering run best_score never
\* increases from one evaluation to the next, and after every evaluation it
\* is the minimum of the scores of all schemes evaluated so far.
C5_BestScoreMonotone ==
    /\ [][C5_NeverWorse]_vars
    /\ [](search \in Clustering => results.best_score = min_seen)

\* a strict clustering run whose best scheme is neither the first nor the
\* last scheme it evaluated
C5_Witness ==
    /\ search = "hcluster" /\ pc = "done"
    /\ Len(analysed) >= 3
    /\ results.best_scheme = analysed[2]
    /\ results.best_score < MaxScore

\* C6: strict clustering from k subsets performs exactly k - 1 merge steps,
\* one evaluation each after that of the start scheme, and then terminates,
\* for every k >= 1.
C6_StrictSteps ==
    search = "hcluster" =>
        /\ iterations <= partnum - 1
        /\ error.type \in {"none", "PhylogenyProgramError"}
        /\ pc \in {"finish", "done"} =>
              (iterations = partnum - 1 /\ Len(analysed) = partnum)

\* C7 as stated: Greedy and Relaxed clustering from k subsets end after at
\* most k - 1 iterations of the step loop, for every k >= 1.
C7_AtMostKMinus1 ==
    search \in {"greedy", "rcluster"} => iterations <= partnum - 1

\* a measure of the work a Greedy or Relaxed run has left: B iterations of
\* the step loop, each with at most C passes of the for loop
C7_Measure ==
    LET B == Max(partnum - 1, 1)
        C == (partnum * (partnum - 1)) \div 2
    IN  CASE pc = "start" -> (B + 1) * (C + 3)
          [] pc = "loop" -> (B - iterations) * (C + 3) + 2
          [] pc = "for" -> (B - iterations) * (C + 3) + 3 + (C - pos)
          [] pc = "finish" -> 1
          [] OTHER -> 0

C7_Decreases ==
    search \in {"greedy", "rcluster"} =>
        (C7_Measure >= 0 /\ C7_Measure' >= 0 /\ C7_Measure' < C7_Measure)

\* C7, amended: Greedy and Relaxed clustering from k subsets end after at
\* most max(k - 1, 1) iterations of the step loop, whatever the oracle
\* returns: the loop body is entered once even when k = 1.  Every step of
\* the run lowers C7_Measure, so the run ends.
C7_StepBound ==
    /\ [](search \in {"greedy", "rcluster"} =>
            /\ iterations <= Max(partnum - 1, 1)
            /\ (pc = "loop" => iterations < Max(partnum - 1, 1))
            /\ (iterations > partnum - 1 => partnum = 1))
    /\ [][C7_Decreases]_vars

\* a greedy run from three or more subsets that took all its k - 1 steps
C7_Witness ==
    /\ search = "greedy" /\ pc = "done"
    /\ partnum >= 3
    /\ iterations = partnum - 1

\* the id sets of the subsets of a scheme
Grouping(scheme) == {scheme.subsets[i].id : i \in 1 .. Len(scheme.subsets)}

\* cand is start with exactly one pair of its subsets merged
IsPairMerge(start, cand) ==
    /\ Len(cand.subsets) = Len(start.subsets) - 1
    /\ \E a, b \in Range(start.subsets) :
          /\ a # b
          /\ Grouping(cand) = (Grouping(start) \ {a.id, b.id}) \cup {a.id \cup b.id}

\* the schemes the for loop of the current step has built
BuiltInStep == SubSeq(analysed, Len(analysed) - pos + 1, Len(analysed))

\* C8: a Greedy step from a scheme of k subsets builds and evaluates
\* exactly C(k,2) candidates, each the current scheme with one pair of
\* subsets merged; after an improving step the next one starts from k - 1
\* subsets (4 singletons: 6 candidates, then 3).
C8_GreedyCandidates ==
    (search = "greedy" /\ pc = "for") =>
        LET start == schemes[start_scheme]
            k == Len(start.subsets)
        IN  /\ k = partnum - step + 1
            /\ Len(lumped_subsets) * 2 = k * (k - 1)
            /\ Len(analysed) >= pos
            /\ \A i \in 1 .. pos : IsPairMerge(start, schemes[BuiltInStep[i]])
            /\ \A i, j \in 1 .. pos :
                  i # j => Grouping(schemes[BuiltInStep[i]])
                             # Grouping(schemes[BuiltInStep[j]])
            /\ (partnum = 4 /\ step = 1) => Len(lumped_subsets) = 6
            /\ (partnum = 4 /\ step = 2) => Len(lumped_subsets) = 3

\* the second step of a greedy run from 4 singletons has evaluated its 3
\* candidates
C8_Witness ==
    /\ search = "greedy" /\ pc = "for"
    /\ partnum = 4 /\ step = 2
    /\ pos = 3 /\ pos = Len(lumped_subsets)

RECURSIVE Binomial(_, _)
Binomial(n, k) ==
    IF k = 0 \/ k = n THEN 1
    ELSE Binomial(n - 1, k - 1) + Binomial(n - 1, k)

RECURSIVE Bell(_)
RECURSIVE BellSum(_, _)
BellSum(n, k) ==
    IF k < 0 THEN 0 ELSE Binomial(n, k) * Bell(k) + BellSum(n, k - 1)
Bell(n) == IF n = 0 THEN 1 ELSE BellSum(n - 1, n - 1)

\* the scheme is a set-partition of the partitions
IsSetPartition(scheme) ==
    /\ {} \notin Grouping(scheme)
    /\ UNION Grouping(scheme) = Parts
    /\ \A i, j \in 1 .. Len(scheme.subsets) :
          i # j => scheme.subsets[i].id \cap scheme.subsets[j].id = {}

\* C9: for n partitions the exhaustive strategy builds exactly Bell(n)
\* pairwise distinct schemes, one per set-partition, each under a fresh
\* name, and each is validated and evaluated once before the best scheme
\* is written (15 schemes for n = 4).
C9_Exhaustive ==
    search = "all" =>
        /\ error.type \in {"none", "PhylogenyProgramError"}
        /\ \A i \in 1 .. Len(analysed) :
              /\ analysed[i] \in DOMAIN schemes
              /\ IsSetPartition(schemes[analysed[i]])
              /\ \A j \in 1 .. Len(analysed) :
                    i # j => /\ analysed[i] # analysed[j]
                             /\ Grouping(schemes[analysed[i]])
                                  # Grouping(schemes[analysed[j]])
        /\ Len(analysed) <= Bell(partnum)
        /\ written = (IF pc = "done" THEN 1 ELSE 0)
        /\ pc = "done" =>
              /\ Len(analysed) = Bell(partnum)
              /\ Len(summaries) = Bell(partnum)
              /\ Cardinality(DOMAIN schemes) = Bell(partnum)
              /\ partnum = 4 => Len(analysed) = 15

\* an exhaustive run over 4 partitions that has written its best scheme
C9_Witness ==
    /\ search = "all" /\ pc = "done"
    /\ partnum = 4
    /\ Len(analysed) = 15

\* ceil(a / b) for naturals a and b > 0
CeilDiv(a, b) == (a + b - 1) \div b

\* C10: in each Relaxed clustering step the candidates evaluated are exactly
\* the first ceil(n * cluster_percent / 100) of the n ranked pair-merges,
\* at least one whenever n >= 1 and cluster_percent > 0.
C10_Cutoff ==
    (search = "rcluster" /\ pc = "for") =>
        LET ranked == get_ranked_clustered_subsets(schemes[start_scheme])
            n == Len(ranked)
        IN  /\ lumped_subsets = SubSeq(ranked, 1, CeilDiv(n * cluster_percent, 100))
            /\ (n >= 1 /\ cluster_percent > 0) => Len(lumped_subsets) >= 1
            /\ \A i \in 1 .. pos :
                  Grouping(schemes[BuiltInStep[i]]) =
                      Grouping([subsets |->
                          [g \in 1 .. Len(clustered_description(
                                            schemes[start_scheme], ranked[i])) |->
                              [id |-> Range(clustered_description(
                                            schemes[start_scheme], ranked[i])[g])]]])

\* C11: with cluster_percent = 100 each Relaxed clustering step from a scheme
\* of k subsets evaluates C(k,2) candidates, the pair-merges a Greedy step
\* enumerates from that scheme in whatever order, and the tracker holds the
\* lowest score evaluated, as it does in a Greedy run.
C11_RelaxedAsGreedy ==
    (search = "rcluster" /\ cluster_percent = 100) =>
        /\ results.best_score = min_seen
        /\ pc = "for" =>
              LET subs == schemes[start_scheme].subsets
              IN  /\ Len(lumped_subsets) * 2 = Len(subs) * (Len(subs) - 1)
                  /\ Range(lumped_subsets) = Range(combinations2(subs))
                  /\ \A i \in 1 .. pos :
                        IsPairMerge(schemes[start_scheme], schemes[BuiltInStep[i]])

\* the second step of a run at 100 percent from 5 partitions has evaluated
\* its 6 candidates
C11_Witness ==
    /\ search = "rcluster" /\ cluster_percent = 100 /\ pc = "for"
    /\ partnum = 5 /\ step = 2
    /\ Len(lumped_subsets) = 6 /\ pos = 6

(***************************************************************************)
(* Properties of the User strategy.                                        *)
(***************************************************************************)
\* C14 as stated: a User run over a non-empty list evaluates each supplied
\* scheme exactly once, in list order, whenever it has ended.
C14_EachOnce ==
    /\ (search = "user" /\ user_schemes = <<>> /\ pc # "start") =>
          /\ pc = "failed" /\ error.type = "AnalysisError"
          /\ analysed = <<>> /\ summaries = <<>> /\ written = 0
    /\ (search = "user" /\ user_schemes # <<>>) => error.type # "AnalysisError"
    /\ (search = "user" /\ user_schemes # <<>> /\ pc \in {"done", "failed"}) =>
          analysed = user_schemes

\* C14, amended: with an empty list the run fails with AnalysisError and
\* nothing is evaluated or written; with a non-empty list AnalysisError is
\* never raised, the schemes evaluated are a prefix of the list (each at
\* most once, in list order), and the whole list once the run completes.
C14_UserRun ==
    /\ (search = "user" /\ user_schemes = <<>> /\ pc # "start") =>
          /\ pc = "failed" /\ error.type = "AnalysisError"
          /\ analysed = <<>> /\ summaries = <<>> /\ written = 0
    /\ (search = "user" /\ user_schemes # <<>>) =>
          /\ error.type # "AnalysisError"
          /\ Len(analysed) <= Len(user_schemes)
          /\ analysed = SubSeq(user_schemes, 1, Len(analysed))
          /\ pc = "done" => (analysed = user_schemes /\ summaries = user_schemes)
          /\ pc = "failed" =>
                (error.type = "PhylogenyProgramError"
                    /\ summaries = SubSeq(user_schemes, 1, Len(analysed) - 1))

\* a User run over three schemes has completed
C14_Witness ==
    /\ search = "user" /\ pc = "done"
    /\ Len(user_schemes) = 3 /\ analysed = user_schemes

C13_NeverSplitOneColumn ==
    search \in Kmeans =>
        \A id \in km.split_calls : Cardinality(columnset(id)) # 1

\* C15: for every strategy, write_best_scheme has been invoked exactly once
\* when the run has completed normally and not at all before that or when
\* the run has aborted with an error, and no scheme is evaluated after it.
C15_WrittenOnceAtEnd ==
    [][/\ written' = (IF pc' = "done" THEN 1 ELSE 0)
       /\ pc' = "failed" => written' = 0
       /\ written = 1 => analysed' = analysed]_vars

\* a run of KmeansGreedy has completed after a split test and a Greedy step
C15_Witness ==
    /\ search = "kmeans_greedy"
    /\ pc = "done"
    /\ written = 1
    /\ km.tests >= 1
    /\ Len(lumped_subsets) >= 1
    /\ analysed[Len(analysed)] = lumped_scheme

\* C16: in k-means splitting, when the evaluation of a test scheme fails
\* with a recoverable data-degeneracy error, the cursor advances by exactly
\* one, the subset list and the best scheme are unchanged, and the run goes
\* on with the loop.
C16_RecoverableContinues ==
    [][(search \in Kmeans /\ pc = "split" /\ iterations' = iterations + 1
           /\ km'.last = "recoverable") =>
          /\ pc' = "split"
          /\ error' = NoError
          /\ km'.subset_index = km.subset_index + 1
          /\ km'.all_subsets = km.all_subsets
          /\ km'.best_scheme = km.best_scheme]_vars

\* C17: in every k-means variant, when the evaluation of a test scheme fails
\* with a diagnostic text that matches none of the recoverable conditions,
\* the failure aborts the run and the cursor does not advance.
C17_OtherFailureAborts ==
    [][(search \in Kmeans /\ pc = "split" /\ iterations' = iterations + 1
           /\ km'.last = "other") =>
          /\ pc' = "failed"
          /\ error'.type = "PhylogenyProgramError"
          /\ km'.subset_index = km.subset_index]_vars

\* C18: in the Greedy, Strict clustering and Relaxed clustering strategies a
\* recoverable data-degeneracy failure of the oracle on a candidate merge
\* does not abort the run.
C18_RecoverableCandidate ==
    (/\ search \in {"greedy", "hcluster", "rcluster"}
     /\ error = PhylogenyProgramError("recoverable")
     /\ Len(analysed) >= 2) => pc # "failed"

\* C19: in a Greedy step the tracked best result moves to a candidate exactly
\* when that candidate scores strictly below the best score at the start of
\* the step and below every candidate before it, so it ends on the first
\* candidate, in enumeration order, that attains the minimum of the step; if
\* that is below the best score at the start of the step, this candidate of
\* the step becomes the current scheme, otherwise the search stops with the
\* current scheme and the best result unchanged.
C19_FirstBestWins ==
    [][/\ (search = "greedy" /\ pc = "for" /\ pos' = pos + 1) =>
             /\ results'.best_score = min_seen'
             /\ IF min_seen' < min_seen
                THEN results'.best_scheme = lumped_scheme'
                ELSE results' = results
       /\ (search = "greedy" /\ pc = "for" /\ pc' \in {"loop", "finish"}) =>
             /\ results' = results
             /\ IF results.best_score < old_best_score
                THEN /\ start_scheme' = results.best_scheme
                     /\ results.best_scheme \in Range(BuiltInStep)
                ELSE /\ pc' = "finish"
                     /\ start_scheme' = start_scheme
                     /\ results.best_score = old_best_score]_vars

\* a step of three or more candidates has adopted one that was not the last
\* it evaluated, and the search goes on from it
C19_Witness ==
    /\ search = "greedy"
    /\ pc = "loop"
    /\ step >= 2
    /\ Len(lumped_subsets) >= 3
    /\ start_scheme = results.best_scheme
    /\ start_scheme # lumped_scheme
    /\ start_scheme # analysed[Len(analysed) - 1]

\* C20: in k-means splitting, after a test scheme was evaluated
\* successfully: if its score is strictly lower than the score of the
\* current best scheme, the subset list is the old one with the subset at
\* the cursor replaced in place by its two pieces and the cursor stays;
\* otherwise the list is unchanged and the cursor advances by one.  The
\* other entries keep their order and identity.
C20_AdoptOrAdvance ==
    [][(search \in Kmeans /\ pc = "split" /\ iterations' = iterations + 1
           /\ km'.last = "scored") =>
          LET i == km.subset_index + 1
              old == km.all_subsets
              new == km'.all_subsets
          IN  IF km'.new_score < km.cached
              THEN /\ km'.subset_index = km.subset_index
                   /\ Len(new) = Len(old) + 1
                   /\ \A j \in 1 .. (i - 1) : new[j] = old[j]
                   /\ \A j \in (i + 1) .. Len(old) : new[j + 1] = old[j]
                   /\ new[i].id \cup new[i + 1].id = old[i].id
                   /\ new[i].id \cap new[i + 1].id = {}
                   /\ new[i].id # {} /\ new[i + 1].id # {}
                   /\ km'.best_scheme = NameCurrent
              ELSE /\ km'.subset_index = km.subset_index + 1
                   /\ new = old
                   /\ km'.best_scheme = km.best_scheme]_vars

\* a split was adopted in front of other entries of the list
C20_Witness ==
    /\ km.last = "scored"
    /\ km.best_scheme = NameCurrent
    /\ km.new_score = km.cached
    /\ km.subset_index + 2 < Len(km.all_subsets)

\* C21: whatever the scores and the split results, every pass of the
\* splitting loop in which no oracle call fails goes back to the loop test
\* having either advanced the cursor or lengthened the subset list by one,
\* and the list is never longer than the number of columns; so the cursor
\* passes the end of the list after finitely many passes.
C21_CursorOrListGrows ==
    [][(search \in Kmeans /\ pc = "split" /\ iterations' = iterations + 1
           /\ km'.last \notin {"recoverable", "other"}) =>
          /\ pc' = "split"
          /\ \/ /\ km'.subset_index = km.subset_index + 1
                /\ Len(km'.all_subsets) = Len(km.all_subsets)
             \/ /\ km'.subset_index = km.subset_index
                /\ Len(km'.all_subsets) = Len(km.all_subsets) + 1
          /\ Len(km'.all_subsets) <= partnum]_vars

\* C22: when workers call get_subset concurrently, with the membership test
\* and the insertion as separate steps, at most one Subset is created for a
\* partition-id set and the workers that asked for the same set have
\* received the same Subset.
C22_OneCreatePerKey ==
    /\ \A k \in DOMAIN created : created[k] <= 1
    /\ \A v, w \in Workers :
          (/\ workers[v].pc = "done" /\ workers[w].pc = "done"
           /\ workers[v].subset_id = workers[w].subset_id) =>
              workers[v].ret = workers[w].ret

\* C23: a k-means run that builds two or more test schemes never fails with
\* SchemeError: each test scheme is registered under a name of its own.
C23_TestSchemeNames ==
    (search \in Kmeans /\ km.tests >= 2) =>
        /\ error.type # "SchemeError"
        /\ km.last # "not built"

\* C24: a Scheme construction that fails with SchemeError leaves the whole
\* registry as it was: the scheme mapping is unchanged and the subset cache
\* has gained no entry.
C24_RegistryUntouched ==
    (call.op = "Scheme" /\ call.raised = "SchemeError") =>
        /\ ~call.added
        /\ call.kept
        /\ call.cache_kept
        /\ ~call.cache_grown

\* C24, as it holds: a Scheme construction that fails, whatever it raises,
\* leaves the scheme mapping as it was and every entry the subset cache had
\* in place.
C24_SchemesUntouched ==
    (call.op = "Scheme" /\ call.raised # "none") =>
        /\ ~call.added
        /\ call.kept
        /\ call.cache_kept

\* a construction failed with SchemeError after its subsets had gone into
\* the cache
C24_Witness ==
    /\ call.op = "Scheme"
    /\ call.raised = "SchemeError"
    /\ call.cache_grown
    /\ ~call.added

\* C25: in a Greedy, Relaxed clustering or k-means-then-greedy run, every
\* entry of the registry's scheme mapping is keyed by the current name of
\* the scheme it holds, and no two registered schemes have the same name.
C25_KeyedByName ==
    search \in {"greedy", "rcluster", "kmeans_greedy"} =>
        /\ \A n \in DOMAIN schemes : schemes[n].name = n
        /\ \A m, n \in DOMAIN schemes :
              schemes[m].name = schemes[n].name => m = n

\* the run is at the loop test of the splitting loop, or a plain or wrapper
\* run has written its best scheme
C26_AtBoundary ==
    /\ search \in Kmeans
    /\ \/ pc = "split"
       \/ pc = "done" /\ search # "kmeans_greedy"

\* C26: at every iteration boundary of a k-means splitting run the local
\* best scheme and best score are the tracker's best_scheme and best_score,
\* and the local best scheme consists of exactly the subsets of the current
\* subset list.
C26_LocalBestEqualsTracker ==
    C26_AtBoundary =>
        /\ km.best_scheme = results.best_scheme
        /\ km.best_score = results.best_score
        /\ schemes[km.best_scheme].subsets = km.all_subsets

\* C26, as it holds: at every iteration boundary the local best scheme is
\* the tracker's best_scheme, the score the oracle gave it is the tracker's
\* best_score, it consists of exactly the subsets of the current subset
\* list, and in the plain variant the local best score is that score too.
C26_LocalBestIsTracked ==
    C26_AtBoundary =>
        /\ km.best_scheme = results.best_scheme
        /\ km.cached = results.best_score
        /\ schemes[km.best_scheme].subsets = km.all_subsets
        /\ search = "kmeans" => km.best_score = results.best_score

\* a wrapper run has written the test scheme it adopted while its local
\* best score was still the score of the scheme before
C26_Witness ==
    /\ search = "kmeans_wss"
    /\ pc = "done"
    /\ written = 1
    /\ km.best_scheme = NameCurrent
    /\ km.best_score # results.best_score

====
